---- MODULE Spec2Model ----
(***************************************************************************)
(* Model of the WebSocketAudioClient component                             *)
(* (src/src/components/StatusIndicator.tsx, lines 91-921): the real-time   *)
(* audio streaming controller.  React state, refs, the browser objects the *)
(* component creates (MediaStream, WebSocket, MediaRecorder, Audio) and    *)
(* the frames put on the wire are the state; every event handler is one    *)
(* action.                                                                 *)
(*                                                                         *)
(* Closures: every function of the component closes over the state values  *)
(* of the render in which it was created.  A handler started from the UI   *)
(* reads the current render; a handler started from a callback chain       *)
(* (onopen -> setTimeout -> startRecording -> onstop ->                    *)
(* processRecordedAudio) reads the values captured when the chain began.   *)
(* These captured values are the s* fields of the records below.           *)
(*                                                                         *)
(* Identifiers: `stream_${Date.now()}` and `call_${Date.now()}` are        *)
(* modelled as the index of the connect attempt whose onopen created them  *)
(* (a fresh positive number); the empty string '' is 0.                    *)
(***************************************************************************)
EXTENDS Integers, Sequences, FiniteSets, TLC

MaxAttempts == 2
MaxRecorders == 2
MaxAudios == 2
MaxChunks == 1

\* The runs explored: how many connect attempts, recorders and audio elements
\* one run may create, whether a knowledge base may be selected when Connect
\* is clicked, and whether the peer sends messages.  Each family is bounded
\* in one dimension by the bound above and holds the others at the least
\* number its cases need.
Budgets ==
  { [att |-> MaxAttempts, rec |-> 1, aud |-> 0, kb |-> {FALSE}, msg |-> FALSE],
    [att |-> 1, rec |-> MaxRecorders, aud |-> 0, kb |-> {FALSE}, msg |-> FALSE],
    [att |-> 1, rec |-> 1, aud |-> MaxAudios, kb |-> {FALSE}, msg |-> TRUE],
    [att |-> 1, rec |-> 1, aud |-> 1, kb |-> {TRUE}, msg |-> TRUE] }

VARIABLES
  isConnected, isRecording, isPlaying, isProcessing, connectionStatus,
  currentStreamId, currentCallId, messageIdCounter, recordedChunks,
  wsRef, mediaRecorderRef, streamRef, playingAudioRef, recordingTimeoutRef,
  attempts, recorders, audios, wire, finalized, threw, budget, afterDisconnect,
  lastMessage

\* The audio conversion of convertAudioForTeler, taken on its own: the decoded
\* channel data and its rate, the target rate, the resampled data, the PCM
\* data and the position (cpc) in the conversion
VARIABLES
  inputData, inputSampleRate, outputSampleRate, resampledData, pcmData, cpc

codecVars == <<inputData, inputSampleRate, outputSampleRate, resampledData,
               pcmData, cpc>>

vars == <<isConnected, isRecording, isPlaying, isProcessing, connectionStatus,
          currentStreamId, currentCallId, messageIdCounter, recordedChunks,
          wsRef, mediaRecorderRef, streamRef, playingAudioRef, recordingTimeoutRef,
          attempts, recorders, audios, wire, finalized, threw, budget, codecVars, afterDisconnect, lastMessage>>

reactState == <<isConnected, isRecording, isPlaying, isProcessing, connectionStatus,
                currentStreamId, currentCallId, messageIdCounter, recordedChunks>>

refs == <<wsRef, mediaRecorderRef, streamRef, playingAudioRef, recordingTimeoutRef>>

\* The state after the first render: useState initial values, null refs.
\* afterDisconnect is a history variable: disconnect() has been called and
\* connect() has not been called since.  lastMessage is a history variable:
\* what the last inbound message was.
InitController ==
  /\ isConnected = FALSE
  /\ isRecording = FALSE
  /\ isPlaying = FALSE
  /\ isProcessing = FALSE
  /\ connectionStatus = "Disconnected"
  /\ currentStreamId = 0
  /\ currentCallId = 0
  /\ messageIdCounter = 1
  /\ recordedChunks = <<>>
  /\ wsRef = 0
  /\ mediaRecorderRef = 0
  /\ streamRef = 0
  /\ playingAudioRef = 0
  /\ recordingTimeoutRef = 0
  /\ attempts = <<>>
  /\ recorders = <<>>
  /\ audios = <<>>
  /\ wire = <<>>
  /\ finalized = <<>>
  /\ threw = FALSE
  /\ budget \in Budgets
  /\ afterDisconnect = FALSE
  /\ lastMessage = "none"

\* No conversion is looked at on its own
Init ==
  /\ InitController
  /\ inputData = <<>>
  /\ inputSampleRate = 0
  /\ outputSampleRate = 0
  /\ resampledData = <<>>
  /\ pcmData = <<>>
  /\ cpc = "none"

----------------------------------------------------------------------------
(* Browser primitives *)

\* clearTimeout(recordingTimeoutRef.current): the auto-stop timer of recorder t
clearTimeout(recs, t) ==
  IF t # 0 THEN [recs EXCEPT ![t].timer = "off"] ELSE recs

\* MediaRecorder.stop(): state becomes inactive at once, the final
\* dataavailable and the stop event are queued.  atStop is history: the
\* chunks emitted before the stop.
MediaRecorderStop(recs, r) ==
  [recs EXCEPT ![r].state = "inactive", ![r].pc = "stopEvt",
               ![r].atStop = recs[r].chunks]

\* History: the caller (why: "timer", "button" or "disconnect") that is about
\* to stop the recorder held in mediaRecorderRef while the transport is open;
\* "offline" when the transport is not open at that moment
stopCause(recs, why) ==
  IF mediaRecorderRef # 0 /\ recs[mediaRecorderRef].state = "recording"
    THEN [recs EXCEPT ![mediaRecorderRef].stop =
            IF wsRef # 0 /\ attempts[wsRef].ws = "OPEN" THEN why ELSE "offline"]
    ELSE recs

\* WebSocket.send(frame) on socket w: delivered when OPEN, silently
\* discarded when CLOSING or CLOSED (CONNECTING throws, see the callers)
WebSocketSend(atts, w, frame) ==
  IF atts[w].ws = "OPEN" THEN Append(wire, frame) ELSE wire

\* HTMLAudioElement.pause().  An element is "playing", "blocked" (play()
\* rejected, it never started), "ended" (it played to its end) or "stopped"
\* (paused or failed).
AudioPause(auds, p) ==
  IF auds[p].state = "playing" THEN [auds EXCEPT ![p].state = "stopped"] ELSE auds

----------------------------------------------------------------------------
(* connect *)

\* A connect that creates the WebSocket before it asks for the microphone
connect_socketFirst(kb) ==
  /\ ~isConnected
  /\ Len(attempts) < budget.att
  /\ connectionStatus' = "Connecting..."
  /\ attempts' = Append(attempts,
        [gum |-> "pending", track |-> "none", ws |-> "CONNECTING",
         onopen |-> "none", autoStart |-> "off",
         sSid |-> currentStreamId, sCtr |-> messageIdCounter,
         sKb |-> kb])
  /\ wsRef' = Len(attempts) + 1
  /\ afterDisconnect' = FALSE
  /\ UNCHANGED <<isConnected, isRecording, isPlaying, isProcessing,
                 currentStreamId, currentCallId, messageIdCounter, recordedChunks,
                 mediaRecorderRef, streamRef, playingAudioRef,
                 recordingTimeoutRef, recorders, audios, wire,
                 finalized, threw, budget, codecVars, lastMessage>>

\* connect(), up to the await of getUserMedia (lines 122-136); started by the
\* "Connect & Start Call" button, rendered while !isConnected (line 753).
\* kb: whether the selectedKnowledgeBaseId prop of that render is non-empty.
connect(kb) ==
  /\ ~isConnected
  /\ Len(attempts) < budget.att
  /\ connectionStatus' = "Connecting..."
  /\ attempts' = Append(attempts,
        [gum |-> "pending", track |-> "none", ws |-> "none",
         onopen |-> "none", autoStart |-> "off",
         sSid |-> currentStreamId, sCtr |-> messageIdCounter,
         sKb |-> kb])
  /\ afterDisconnect' = FALSE
  /\ UNCHANGED <<isConnected, isRecording, isPlaying, isProcessing,
                 currentStreamId, currentCallId, messageIdCounter, recordedChunks,
                 refs, recorders, audios, wire,
                 finalized, threw, budget, codecVars, lastMessage>>

\* getUserMedia resolves: the stream is held and the WebSocket created
\* (lines 138-142)
getUserMediaResolved(a) ==
  /\ attempts[a].gum = "pending"
  /\ attempts' = [attempts EXCEPT ![a].gum = "granted", ![a].track = "live",
                                  ![a].ws = "CONNECTING"]
  /\ streamRef' = a
  /\ wsRef' = a
  /\ UNCHANGED <<reactState, mediaRecorderRef,
                 playingAudioRef, recordingTimeoutRef, recorders, audios, wire,
                 finalized, threw, budget, codecVars, afterDisconnect, lastMessage>>

\* getUserMedia rejects: the catch of connect (lines 236-239)
getUserMediaRejected(a) ==
  /\ attempts[a].gum = "pending"
  /\ attempts' = [attempts EXCEPT ![a].gum = "denied"]
  /\ connectionStatus' = "Failed to connect - check microphone permissions"
  /\ UNCHANGED <<isConnected, isRecording, isPlaying, isProcessing,
                 currentStreamId, currentCallId, messageIdCounter, recordedChunks,
                 refs, recorders, audios, wire,
                 finalized, threw, budget, codecVars, afterDisconnect, lastMessage>>

\* onopen after the optional association (lines 176-202): store the stream
\* id, reset the counter, send the start frame on wsRef.current, schedule the
\* auto-start.  send() on a socket still CONNECTING throws InvalidStateError,
\* which rejects the async onopen (nothing catches it) before setTimeout.
startMessage(a, atts) ==
  /\ currentStreamId' = a
  /\ messageIdCounter' = 2
  /\ IF atts[wsRef].ws = "CONNECTING"
       THEN /\ threw' = TRUE
            /\ wire' = wire
            /\ attempts' = [atts EXCEPT ![a].onopen = "done"]
       ELSE /\ threw' = threw
            /\ wire' = WebSocketSend(atts, wsRef,
                         [ws |-> wsRef, type |-> "start", sid |-> a, mid |-> 1,
                          rec |-> 0, payload |-> "none"])
            /\ attempts' = [atts EXCEPT ![a].onopen = "done",
                                        ![a].autoStart = "pending"]

\* The open event of socket a: onopen up to the first await (lines 144-166),
\* or to its end when no knowledge base was selected at connect time
onopen(a) ==
  /\ attempts[a].ws = "CONNECTING"
  /\ isConnected' = TRUE
  /\ connectionStatus' = "Connected"
  /\ currentCallId' = a
  /\ LET atts == [attempts EXCEPT ![a].ws = "OPEN"]
     IN IF attempts[a].sKb
          THEN /\ attempts' = [atts EXCEPT ![a].onopen = "assoc"]
               /\ UNCHANGED <<currentStreamId, messageIdCounter, wire, threw>>
          ELSE startMessage(a, atts)
  /\ UNCHANGED <<isRecording, isPlaying, isProcessing, recordedChunks,
                 refs, recorders, audios,
                 finalized, budget, codecVars, afterDisconnect, lastMessage>>

\* An onopen whose catch gives up the session when the association failed
associateDone_abortsSession(a) ==
  /\ attempts[a].onopen = "assoc"
  /\ attempts' = [attempts EXCEPT ![a].onopen = "done"]
  /\ UNCHANGED <<reactState, refs, recorders, audios, wire,
                 finalized, threw, budget, codecVars, afterDisconnect, lastMessage>>

\* The associate-kb fetch and the 100 ms delay are over, successfully or not
\* (the catch of lines 171-173 swallows a failure): onopen resumes
associateDone(a) ==
  /\ attempts[a].onopen = "assoc"
  /\ startMessage(a, attempts)
  /\ UNCHANGED <<isConnected, isRecording, isPlaying, isProcessing,
                 connectionStatus, currentCallId, recordedChunks,
                 refs, recorders, audios,
                 finalized, budget, codecVars, afterDisconnect, lastMessage>>

\* The onclose handler (lines 224-229)
oncloseHandler ==
  /\ isConnected' = FALSE
  /\ isRecording' = FALSE
  /\ connectionStatus' = "Disconnected"

\* The close event after close() was called or after an error
oncloseAfterClosing(a) ==
  /\ attempts[a].ws = "CLOSING"
  /\ attempts' = [attempts EXCEPT ![a].ws = "CLOSED"]
  /\ oncloseHandler
  /\ UNCHANGED <<isPlaying, isProcessing, currentStreamId, currentCallId,
                 messageIdCounter, recordedChunks, refs,
                 recorders, audios, wire, finalized, threw, budget, codecVars, afterDisconnect, lastMessage>>

\* The peer closes the transport: the close event of an open socket
oncloseByPeer(a) ==
  /\ attempts[a].ws = "OPEN"
  /\ attempts' = [attempts EXCEPT ![a].ws = "CLOSED"]
  /\ oncloseHandler
  /\ UNCHANGED <<isPlaying, isProcessing, currentStreamId, currentCallId,
                 messageIdCounter, recordedChunks, refs,
                 recorders, audios, wire, finalized, threw, budget, codecVars, afterDisconnect, lastMessage>>

\* The onerror handler (lines 231-234); the socket is failed and its close
\* event follows
onerror(a) ==
  /\ attempts[a].ws \in {"CONNECTING", "OPEN"}
  /\ attempts' = [attempts EXCEPT ![a].ws = "CLOSING"]
  /\ connectionStatus' = "Connection Error"
  /\ UNCHANGED <<isConnected, isRecording, isPlaying, isProcessing,
                 currentStreamId, currentCallId, messageIdCounter, recordedChunks,
                 refs, recorders, audios, wire,
                 finalized, threw, budget, codecVars, afterDisconnect, lastMessage>>

----------------------------------------------------------------------------
(* Capture *)

\* startRecording (lines 282-362) of the render whose currentStreamId and
\* messageIdCounter are sid and ctr.  MediaRecorder.start() throws
\* NotSupportedError on a stream whose tracks have all ended; the catch then
\* clears isRecording and leaves the new, inactive recorder in the ref.
\* atts is the value attempts takes in the step.
startRecording(sid, ctr, by, atts) ==
  IF streamRef = 0 \/ wsRef = 0 \/ atts[wsRef].ws # "OPEN"
    THEN UNCHANGED <<recorders, mediaRecorderRef, recordingTimeoutRef, isRecording>>
    ELSE /\ Len(recorders) < budget.rec
         /\ mediaRecorderRef' = Len(recorders) + 1
         /\ IF atts[streamRef].track = "live"
              THEN /\ recorders' = Append(recorders,
                        [state |-> "recording", pc |-> "live", chunks |-> 0,
                         timer |-> "pending", sSid |-> sid, sCtr |-> ctr,
                         by |-> by, stream |-> streamRef,
                         stop |-> "none", atStop |-> 0])
                   /\ isRecording' = TRUE
                   /\ recordingTimeoutRef' = Len(recorders) + 1
              ELSE /\ recorders' = Append(recorders,
                        [state |-> "inactive", pc |-> "done", chunks |-> 0,
                         timer |-> "off", sSid |-> sid, sCtr |-> ctr,
                         by |-> by, stream |-> streamRef,
                         stop |-> "none", atStop |-> 0])
                   /\ isRecording' = FALSE
                   /\ recordingTimeoutRef' = recordingTimeoutRef

\* The 1000 ms timer set by onopen fires (lines 200-202): startRecording of
\* the render in which connect was started
autoStartTimer(a) ==
  /\ attempts[a].autoStart = "pending"
  /\ attempts' = [attempts EXCEPT ![a].autoStart = "off"]
  /\ startRecording(attempts[a].sSid, attempts[a].sCtr, "auto", attempts')
  /\ UNCHANGED <<isConnected, isPlaying, isProcessing, connectionStatus,
                 currentStreamId, currentCallId, messageIdCounter, recordedChunks,
                 wsRef, streamRef, playingAudioRef,
                 audios, wire, finalized, threw, budget, codecVars, afterDisconnect, lastMessage>>

\* stopRecording (lines 364-375) applied to the recorders recs
stopRecording(recs) ==
  /\ recordingTimeoutRef' = 0
  /\ LET recs1 == clearTimeout(recs, recordingTimeoutRef)
     IN IF mediaRecorderRef # 0 /\ recs1[mediaRecorderRef].state = "recording"
          THEN /\ recorders' = MediaRecorderStop(recs1, mediaRecorderRef)
               /\ isRecording' = FALSE
          ELSE /\ recorders' = recs1
               /\ isRecording' = isRecording

\* The record button (line 764): stopRecording while isRecording, else
\* startRecording of the current render; rendered while isConnected
recordButton ==
  /\ isConnected
  /\ IF isRecording
       THEN /\ stopRecording(stopCause(recorders, "button"))
            /\ mediaRecorderRef' = mediaRecorderRef
       ELSE startRecording(currentStreamId, messageIdCounter, "button", attempts)
  /\ UNCHANGED <<isConnected, isPlaying, isProcessing, connectionStatus,
                 currentStreamId, currentCallId, messageIdCounter, recordedChunks,
                 wsRef, streamRef, playingAudioRef,
                 attempts, audios, wire, finalized, threw, budget, codecVars, afterDisconnect, lastMessage>>

\* The 3000 ms auto-stop timer set when recorder r was started fires
\* (lines 351-356)
autoStopTimer(r) ==
  /\ recorders[r].timer = "pending"
  /\ LET recs == [recorders EXCEPT ![r].timer = "off"]
     IN IF mediaRecorderRef # 0 /\ recs[mediaRecorderRef].state = "recording"
          THEN stopRecording(stopCause(recs, "timer"))
          ELSE /\ recorders' = recs
               /\ UNCHANGED <<recordingTimeoutRef, isRecording>>
  /\ UNCHANGED <<isConnected, isPlaying, isProcessing, connectionStatus,
                 currentStreamId, currentCallId, messageIdCounter, recordedChunks,
                 wsRef, mediaRecorderRef, streamRef,
                 playingAudioRef, attempts, audios, wire, finalized, threw, budget, codecVars, afterDisconnect, lastMessage>>

\* An ondataavailable that sends every time slice as a frame of its own
ondataavailable_sendsChunk(r) ==
  /\ recorders[r].state = "recording"
  /\ recorders[r].chunks < MaxChunks
  /\ recorders' = [recorders EXCEPT ![r].chunks = @ + 1]
  /\ wire' = WebSocketSend(attempts, wsRef,
                [ws |-> wsRef, type |-> "audio", sid |-> recorders[r].sSid,
                 mid |-> recorders[r].sCtr, rec |-> r, payload |-> "pcm"])
  /\ UNCHANGED <<reactState, refs, attempts, audios, finalized, threw, budget, codecVars,
                 afterDisconnect, lastMessage>>

\* A 1-second time slice of recorder r ends: ondataavailable (lines 320-325)
ondataavailable(r) ==
  /\ recorders[r].state = "recording"
  /\ recorders[r].chunks < MaxChunks
  /\ recorders' = [recorders EXCEPT ![r].chunks = @ + 1]
  /\ UNCHANGED <<reactState, refs, attempts, audios,
                 wire, finalized, threw, budget, codecVars, afterDisconnect, lastMessage>>

\* The user agent stops a recorder whose stream has no live track left
tracksEnded(r) ==
  /\ recorders[r].state = "recording"
  /\ attempts[recorders[r].stream].track = "ended"
  /\ recorders' = MediaRecorderStop([recorders EXCEPT ![r].stop = "tracks"], r)
  /\ UNCHANGED <<reactState, refs, attempts, audios,
                 wire, finalized, threw, budget, codecVars, afterDisconnect, lastMessage>>

\* processRecordedAudio up to the await of convertAudioForTeler
\* (lines 377-396): the pc of the recorder whose chunks are processed
processRecordedAudio ==
  IF wsRef = 0 \/ attempts[wsRef].ws # "OPEN" THEN "done" ELSE "converting"

\* The queued events of a stopped recorder r: the final dataavailable (last:
\* whether it carries data) and onstop (lines 327-339)
onstop(r, last) ==
  /\ recorders[r].pc = "stopEvt"
  /\ LET n == recorders[r].chunks + (IF last THEN 1 ELSE 0)
     IN recorders' = [recorders EXCEPT
                        ![r].chunks = n,
                        ![r].pc = IF n > 0 THEN processRecordedAudio ELSE "done"]
  /\ finalized' = Append(finalized, r)
  /\ UNCHANGED <<reactState, refs, attempts, audios,
                 wire, threw, budget, codecVars, afterDisconnect, lastMessage>>

\* A convertAudioForTeler without the passthrough fallback: a decode failure
\* yields null
convertAudioForTeler_noFallback(r, res) ==
  /\ recorders[r].pc = "converting"
  /\ recorders' = [recorders EXCEPT
                     ![r].pc = IF res # "pcm" THEN "failed" ELSE "done"]
  /\ IF res # "pcm"
       THEN UNCHANGED <<recordedChunks, wire, messageIdCounter, isProcessing>>
       ELSE /\ recordedChunks' = Append(recordedChunks,
                  [messageId |-> recorders[r].sCtr, isPlaying |-> FALSE, rec |-> r])
            /\ IF attempts[wsRef].ws = "CONNECTING"
                 THEN UNCHANGED <<wire, messageIdCounter, isProcessing>>
                 ELSE /\ wire' = WebSocketSend(attempts, wsRef,
                            [ws |-> wsRef, type |-> "audio",
                             sid |-> recorders[r].sSid, mid |-> recorders[r].sCtr,
                             rec |-> r, payload |-> res])
                      /\ messageIdCounter' = messageIdCounter + 1
                      /\ isProcessing' = TRUE
  /\ UNCHANGED <<isConnected, isRecording, isPlaying, connectionStatus,
                 currentStreamId, currentCallId, refs,
                 attempts, audios, finalized, threw, budget, codecVars, afterDisconnect, lastMessage>>

\* convertAudioForTeler has settled with res (base64 PCM, the fallback's
\* base64 of the container, or null) and processRecordedAudio runs to its
\* end (lines 398-443); on null it returns at line 401 (pc "failed").  send() on a socket still CONNECTING throws into the
\* catch of line 441, after the chunk was stored.
convertAudioForTeler(r, res) ==
  /\ recorders[r].pc = "converting"
  /\ recorders' = [recorders EXCEPT
                     ![r].pc = IF res = "null" THEN "failed" ELSE "done"]
  /\ IF res = "null"
       THEN UNCHANGED <<recordedChunks, wire, messageIdCounter, isProcessing>>
       ELSE /\ recordedChunks' = Append(recordedChunks,
                  [messageId |-> recorders[r].sCtr, isPlaying |-> FALSE, rec |-> r])
            /\ IF attempts[wsRef].ws = "CONNECTING"
                 THEN UNCHANGED <<wire, messageIdCounter, isProcessing>>
                 ELSE /\ wire' = WebSocketSend(attempts, wsRef,
                            [ws |-> wsRef, type |-> "audio",
                             sid |-> recorders[r].sSid, mid |-> recorders[r].sCtr,
                             rec |-> r, payload |-> res])
                      /\ messageIdCounter' = messageIdCounter + 1
                      /\ isProcessing' = TRUE
  /\ UNCHANGED <<isConnected, isRecording, isPlaying, connectionStatus,
                 currentStreamId, currentCallId, refs,
                 attempts, audios, finalized, threw, budget, codecVars, afterDisconnect, lastMessage>>

----------------------------------------------------------------------------
(* disconnect *)

\* disconnect (lines 242-280), called by the Disconnect button and by the
\* effect cleanup of lines 116-120.  audioContextRef is never assigned, so
\* its branch (lines 265-267) is dead.
disconnect ==
  /\ recordingTimeoutRef' = 0
  /\ LET recs1 == stopCause(clearTimeout(recorders, recordingTimeoutRef),
                             "disconnect")
     IN recorders' =
          IF mediaRecorderRef # 0 /\ recs1[mediaRecorderRef].state # "inactive"
            THEN MediaRecorderStop(recs1, mediaRecorderRef) ELSE recs1
  /\ LET atts1 == IF streamRef # 0
                    THEN [attempts EXCEPT ![streamRef].track = "ended"]
                    ELSE attempts
     IN attempts' =
          IF wsRef # 0 /\ atts1[wsRef].ws = "OPEN"
            THEN [atts1 EXCEPT ![wsRef].ws = "CLOSING"] ELSE atts1
  /\ IF playingAudioRef # 0
       THEN /\ audios' = AudioPause(audios, playingAudioRef)
            /\ playingAudioRef' = 0
       ELSE UNCHANGED <<audios, playingAudioRef>>
  /\ isConnected' = FALSE
  /\ isRecording' = FALSE
  /\ connectionStatus' = "Disconnected"
  /\ currentStreamId' = 0
  /\ currentCallId' = 0
  /\ messageIdCounter' = 1
  /\ afterDisconnect' = TRUE
  /\ UNCHANGED <<isPlaying, isProcessing, recordedChunks, wsRef,
                 mediaRecorderRef, streamRef, wire, finalized, threw, budget, codecVars, lastMessage>>

----------------------------------------------------------------------------
(* Playback *)

allNotPlaying(chunks) ==
  [i \in 1..Len(chunks) |-> [chunks[i] EXCEPT !.isPlaying = FALSE]]

\* A playAudioResponse whose catch does not take back setIsPlaying(true)
playAudioResponse_staysPlaying(out) ==
  /\ isProcessing' = FALSE
  /\ isPlaying' = TRUE
  /\ IF out = "atob"
       THEN UNCHANGED <<audios, playingAudioRef>>
       ELSE /\ Len(audios) < budget.aud
            /\ audios' = Append(audios,
                 [state |-> IF out = "ok" THEN "playing" ELSE "blocked",
                  kind |-> "response"])
            /\ playingAudioRef' = Len(audios) + 1

\* playAudioResponse (lines 572-614).  out: "ok" the element plays, "atob"
\* the base64 decoding throws before an element exists, "reject" play()
\* rejects.  The previous element is neither paused nor released.
playAudioResponse(out) ==
  /\ isProcessing' = FALSE
  /\ IF out = "atob"
       THEN /\ isPlaying' = FALSE
            /\ UNCHANGED <<audios, playingAudioRef>>
       ELSE /\ Len(audios) < budget.aud
            /\ audios' = Append(audios,
                 [state |-> IF out = "ok" THEN "playing" ELSE "blocked",
                  kind |-> "response"])
            /\ playingAudioRef' = Len(audios) + 1
            /\ isPlaying' = (out = "ok")

\* A message handler that clears the processing mark whatever the type is
onmessage_clearsOnAnyType(a, kind, out) ==
  /\ budget.msg
  /\ attempts[a].ws = "OPEN"
  /\ CASE kind = "audio" -> playAudioResponse(out)
       [] kind = "invalid" ->
            /\ out = "ok"
            /\ isProcessing' = FALSE
            /\ UNCHANGED <<isPlaying, audios, playingAudioRef>>
       [] OTHER ->
            /\ out = "ok"
            /\ isProcessing' = FALSE
            /\ UNCHANGED <<isPlaying, audios, playingAudioRef>>
  /\ lastMessage' = IF kind = "audio" THEN out ELSE kind
  /\ UNCHANGED <<isConnected, isRecording, connectionStatus, currentStreamId,
                 currentCallId, messageIdCounter, recordedChunks,
                 wsRef, mediaRecorderRef, streamRef, recordingTimeoutRef,
                 attempts, recorders, wire, finalized, threw, budget, codecVars,
                 afterDisconnect>>

\* The message event of socket a (lines 205-222); a socket that is not OPEN
\* delivers no message.  kind: "audio" carries audio_b64 (top-level or under
\* data), "empty" is type audio without it, "other" is any other type,
\* "invalid" is not JSON.  lastMessage records the kind, and for "audio" the
\* outcome of its playback.
onmessage(a, kind, out) ==
  /\ budget.msg
  /\ attempts[a].ws = "OPEN"
  /\ CASE kind = "audio" -> playAudioResponse(out)
       [] kind = "invalid" ->
            /\ out = "ok"
            /\ isProcessing' = FALSE
            /\ UNCHANGED <<isPlaying, audios, playingAudioRef>>
       [] OTHER ->
            /\ out = "ok"
            /\ UNCHANGED <<isProcessing, isPlaying, audios, playingAudioRef>>
  /\ lastMessage' = IF kind = "audio" THEN out ELSE kind
  /\ UNCHANGED <<isConnected, isRecording, connectionStatus, currentStreamId,
                 currentCallId, messageIdCounter, recordedChunks,
                 wsRef, mediaRecorderRef, streamRef, recordingTimeoutRef,
                 attempts, recorders, wire, finalized, threw, budget, codecVars,
                 afterDisconnect>>

\* An ended handler that leaves the playing mark of a response set
audioOnended_staysPlaying(p) ==
  /\ audios[p].state = "playing"
  /\ audios' = [audios EXCEPT ![p].state = "ended"]
  /\ playingAudioRef' = 0
  /\ IF audios[p].kind = "response"
       THEN isPlaying' = isPlaying /\ recordedChunks' = recordedChunks
       ELSE isPlaying' = isPlaying /\ recordedChunks' = allNotPlaying(recordedChunks)
  /\ UNCHANGED <<isConnected, isRecording, isProcessing, connectionStatus,
                 currentStreamId, currentCallId, messageIdCounter,
                 wsRef, mediaRecorderRef, streamRef,
                 recordingTimeoutRef, attempts, recorders, wire, finalized, threw, budget, codecVars, afterDisconnect, lastMessage>>

\* The ended event of audio element p (lines 592-597 and 637-643)
audioOnended(p) ==
  /\ audios[p].state = "playing"
  /\ audios' = [audios EXCEPT ![p].state = "ended"]
  /\ playingAudioRef' = 0
  /\ IF audios[p].kind = "response"
       THEN isPlaying' = FALSE /\ recordedChunks' = recordedChunks
       ELSE isPlaying' = isPlaying /\ recordedChunks' = allNotPlaying(recordedChunks)
  /\ UNCHANGED <<isConnected, isRecording, isProcessing, connectionStatus,
                 currentStreamId, currentCallId, messageIdCounter,
                 wsRef, mediaRecorderRef, streamRef,
                 recordingTimeoutRef, attempts, recorders, wire, finalized, threw, budget, codecVars, afterDisconnect, lastMessage>>

\* The error event of audio element p (lines 599-605 and 645-652)
audioOnerror(p) ==
  /\ audios[p].state \in {"playing", "blocked"}
  /\ audios' = [audios EXCEPT ![p].state = "stopped"]
  /\ playingAudioRef' = 0
  /\ IF audios[p].kind = "response"
       THEN /\ isPlaying' = FALSE
            /\ isProcessing' = FALSE
            /\ recordedChunks' = recordedChunks
       ELSE /\ UNCHANGED <<isPlaying, isProcessing>>
            /\ recordedChunks' = allNotPlaying(recordedChunks)
  /\ UNCHANGED <<isConnected, isRecording, connectionStatus,
                 currentStreamId, currentCallId, messageIdCounter,
                 wsRef, mediaRecorderRef, streamRef,
                 recordingTimeoutRef, attempts, recorders, wire, finalized, threw, budget, codecVars, afterDisconnect, lastMessage>>

\* playAudioChunk (lines 616-663) for chunk i; out: "ok" or "reject"
playAudioChunk(i, out) ==
  /\ Len(audios) < budget.aud
  /\ LET auds == IF playingAudioRef # 0
                   THEN AudioPause(audios, playingAudioRef) ELSE audios
     IN audios' = Append(auds,
          [state |-> IF out = "ok" THEN "playing" ELSE "blocked", kind |-> "chunk"])
  /\ playingAudioRef' = Len(audios) + 1
  /\ recordedChunks' =
       IF out = "ok"
         THEN [j \in 1..Len(recordedChunks) |->
                 [recordedChunks[j] EXCEPT !.isPlaying = (j = i)]]
         ELSE allNotPlaying(recordedChunks)

\* stopPlayingChunk (lines 665-673)
stopPlayingChunk ==
  /\ IF playingAudioRef # 0
       THEN /\ audios' = AudioPause(audios, playingAudioRef)
            /\ playingAudioRef' = 0
       ELSE UNCHANGED <<audios, playingAudioRef>>
  /\ recordedChunks' = allNotPlaying(recordedChunks)

\* The play/stop button of chunk i in the chunks list (line 842)
chunkButton(i, out) ==
  /\ i \in 1..Len(recordedChunks)
  /\ IF recordedChunks[i].isPlaying
       THEN out = "ok" /\ stopPlayingChunk
       ELSE playAudioChunk(i, out)
  /\ UNCHANGED <<isConnected, isRecording, isPlaying, isProcessing,
                 connectionStatus, currentStreamId, currentCallId,
                 messageIdCounter, wsRef,
                 mediaRecorderRef, streamRef, recordingTimeoutRef, attempts,
                 recorders, wire, finalized, threw, budget, codecVars, afterDisconnect, lastMessage>>

\* clearAllChunks (lines 686-689), rendered while the list is not empty
clearAllChunks ==
  /\ Len(recordedChunks) > 0
  /\ IF playingAudioRef # 0
       THEN /\ audios' = AudioPause(audios, playingAudioRef)
            /\ playingAudioRef' = 0
       ELSE UNCHANGED <<audios, playingAudioRef>>
  /\ recordedChunks' = <<>>
  /\ UNCHANGED <<isConnected, isRecording, isPlaying, isProcessing,
                 connectionStatus, currentStreamId, currentCallId,
                 messageIdCounter, wsRef,
                 mediaRecorderRef, streamRef, recordingTimeoutRef, attempts,
                 recorders, wire, finalized, threw, budget, codecVars, afterDisconnect, lastMessage>>

----------------------------------------------------------------------------
(* Audio conversion (convertAudioForTeler, resampleAudio)                    *)
(*                                                                          *)
(* A sample is the rational n/d, written [n |-> n, d |-> d] with d > 0 and  *)
(* in lowest terms; d = 0 is NaN.  The arithmetic is exact: the rounding of *)
(* IEEE doubles and of Float32Array stores is not modelled.                 *)

MaxSamples == 6

PCM16Max == 32767

Abs(x) == IF x < 0 THEN -x ELSE x

Min(x, y) == IF x < y THEN x ELSE y

RECURSIVE Gcd(_, _)
Gcd(x, y) == IF y = 0 THEN x ELSE Gcd(y, x % y)

\* The rational n/d (d > 0) in lowest terms
Rat(n, d) ==
  LET g == Gcd(Abs(n), d) IN [n |-> n \div g, d |-> d \div g]

NaN == [n |-> 0, d |-> 0]

\* Math.round of the rational n/d: the nearest integer, halves go up
MathRound(n, d) == (2 * n + d) \div (2 * d)

\* const ratio = inputSampleRate / outputSampleRate (line 523), as the
\* fraction p/q in lowest terms
ratio(inRate, outRate) ==
  LET g == Gcd(inRate, outRate) IN [p |-> inRate \div g, q |-> outRate \div g]

\* An output length taken with Math.ceil instead of Math.round
outputLength_ceil(n, inRate, outRate) ==
  LET r == ratio(inRate, outRate) IN (n * r.q + r.p - 1) \div r.p

\* const outputLength = Math.round(inputData.length / ratio) (line 524)
outputLength(n, inRate, outRate) ==
  LET r == ratio(inRate, outRate) IN MathRound(n * r.q, r.p)

\* Math.floor(i * ratio) for the output index i, counted from 0 (line 529)
inputIndexFloor(i, inRate, outRate) ==
  LET r == ratio(inRate, outRate) IN (i * r.p) \div r.q

\* Math.min(inputIndexFloor + 1, inputData.length - 1) (line 530)
inputIndexCeil(i, n, inRate, outRate) ==
  Min(inputIndexFloor(i, inRate, outRate) + 1, n - 1)

\* a * (1 - num/den) + b * (num/den) for samples a and b (line 534)
interpolate(a, b, num, den) ==
  IF a.d = 0 \/ b.d = 0
    THEN NaN
    ELSE Rat(a.n * b.d * (den - num) + b.n * a.d * num, a.d * b.d * den)

\* A resampler without the equal-rate shortcut whose interpolation weights
\* are swapped
resampleAudio_swappedWeights(data, inRate, outRate) ==
  LET r == ratio(inRate, outRate)
      n == Len(data)
  IN [k \in 1..outputLength(n, inRate, outRate) |->
        interpolate(data[inputIndexCeil(k - 1, n, inRate, outRate) + 1],
                    data[inputIndexFloor(k - 1, inRate, outRate) + 1],
                    ((k - 1) * r.p) % r.q, r.q)]

\* resampleAudio (lines 518-546); sequences count from 1, the code's arrays
\* from 0
resampleAudio(data, inRate, outRate) ==
  IF inRate = outRate
    THEN data
    ELSE LET r == ratio(inRate, outRate)
             n == Len(data)
         IN [k \in 1..outputLength(n, inRate, outRate) |->
               interpolate(data[inputIndexFloor(k - 1, inRate, outRate) + 1],
                           data[inputIndexCeil(k - 1, n, inRate, outRate) + 1],
                           ((k - 1) * r.p) % r.q, r.q)]

\* Math.max(-1, Math.min(1, sample)) (line 479); NaN stays NaN
clamp(sample) ==
  IF sample.d = 0 THEN sample
  ELSE IF sample.n > sample.d THEN [n |-> 1, d |-> 1]
  ELSE IF sample.n < -sample.d THEN [n |-> -1, d |-> 1]
  ELSE sample

\* The store of the number x into an Int16Array element: modulo 2^16
ToInt16(x) == ((x + 32768) % 65536) - 32768

\* pcmData[i] = Math.round(sample * 32767) (line 480); NaN is stored as 0
scale(sample) ==
  IF sample.d = 0 THEN 0
  ELSE ToInt16(MathRound(sample.n * PCM16Max, sample.d))

\* A conversion that scales without clamping first
toPCM16_noClamp(data) ==
  [k \in 1..Len(data) |-> scale(data[k])]

\* The loop of lines 476-481
toPCM16(data) ==
  [k \in 1..Len(data) |-> scale(clamp(data[k]))]

\* The sample values and the rates the conversions are tried on
SampleCycle ==
  << [n |-> 0, d |-> 1], [n |-> 1, d |-> 3], [n |-> -1, d |-> 2],
     [n |-> 1, d |-> 1], [n |-> 3, d |-> 2], [n |-> -1, d |-> 1],
     [n |-> -2, d |-> 1], NaN, [n |-> 2, d |-> 3] >>

Rates == {8000, 16000, 44100, 48000}

\* The channel data decodeAudioData delivered (lines 460-469): up to
\* MaxSamples samples, at any of the rates, to be brought to any of the rates
CodecInit ==
  /\ InitController
  /\ \E len \in 0..MaxSamples, k \in 1..Len(SampleCycle) :
       inputData = [i \in 1..len |-> SampleCycle[((i + k) % Len(SampleCycle)) + 1]]
  /\ inputSampleRate \in Rates
  /\ outputSampleRate \in Rates
  /\ resampledData = <<>>
  /\ pcmData = <<>>
  /\ cpc = "decoded"

\* const resampledData = await resampleAudio(...) (line 472)
convertResample ==
  /\ cpc = "decoded"
  /\ resampledData' = resampleAudio(inputData, inputSampleRate, outputSampleRate)
  /\ cpc' = "resampled"
  /\ UNCHANGED <<inputData, inputSampleRate, outputSampleRate, pcmData>>
  /\ UNCHANGED <<reactState, refs, attempts, recorders, audios, wire, finalized,
                 threw, budget, afterDisconnect, lastMessage>>

\* The conversion of the resampled data to 16-bit PCM (lines 475-481)
convertPCM16 ==
  /\ cpc = "resampled"
  /\ pcmData' = toPCM16(resampledData)
  /\ cpc' = "pcm"
  /\ UNCHANGED <<inputData, inputSampleRate, outputSampleRate, resampledData>>
  /\ UNCHANGED <<reactState, refs, attempts, recorders, audios, wire, finalized,
                 threw, budget, afterDisconnect, lastMessage>>

CodecNext == convertResample \/ convertPCM16

CodecSpec == CodecInit /\ [][CodecNext]_vars

----------------------------------------------------------------------------
(* Properties *)

Attempts == 1..Len(attempts)
Recorders == 1..Len(recorders)
Audios == 1..Len(audios)

\* The frames put on socket a, in the order sent: the session of socket a
Frames(a) == SelectSeq(wire, LAMBDA f : f.ws = a)

AudioFrames == {i \in 1..Len(wire) : wire[i].type = "audio"}

\* C1: in every session the message_id values on the wire are 1, 2, 3, ...:
\* the first frame carries 1 and every audio frame carries an id one greater
\* than the frame sent before it on its socket, so that none is used twice.
C1_MessageIdsSequential ==
  \A a \in Attempts :
    LET fs == Frames(a)
    IN \A i \in 1..Len(fs) :
         /\ i = 1 => fs[i].mid = 1
         /\ (i > 1 /\ fs[i].type = "audio") => fs[i].mid = fs[i - 1].mid + 1

\* C2: every audio frame carries the stream_id of the start frame of its
\* session, never the empty string.
C2_AudioStreamIdIsSessions ==
  \A i \in AudioFrames :
    /\ wire[i].sid # 0
    /\ \A j \in 1..Len(wire) :
         (wire[j].type = "start" /\ wire[j].ws = wire[i].ws)
            => wire[i].sid = wire[j].sid

\* All four resources of the session are released
Released ==
  /\ \A r \in Recorders : recorders[r].state # "recording"
  /\ \A p \in Audios : audios[p].state # "playing"
  /\ playingAudioRef = 0
  /\ \A a \in Attempts : attempts[a].ws \notin {"CONNECTING", "OPEN"}
  /\ \A a \in Attempts : attempts[a].track # "live"

\* C3: a disconnect() of a connected session leaves the recorder stopped,
\* the playback halted and its handle cleared, the WebSocket closed and the
\* microphone tracks stopped.
C3_DisconnectReleasesAll ==
  [][(isConnected /\ disconnect) => Released']_vars

\* C4: once disconnect() has been called, and until connect() is called
\* again, nothing has thrown, no microphone track is live, no WebSocket is
\* open or opening and no playback started before the call is active, also
\* after the connect steps that were pending have completed.
C4_DisconnectAnytimeReleases ==
  afterDisconnect =>
    /\ ~threw
    /\ \A a \in Attempts : attempts[a].ws \notin {"CONNECTING", "OPEN"}
    /\ \A a \in Attempts : attempts[a].track # "live"

\* C5: at most one MediaRecorder is recording at any time.
C5_AtMostOneCapture ==
  Cardinality({r \in Recorders : recorders[r].state = "recording"}) <= 1

\* C6: at most one audio element is playing at any time, and it is the one
\* the playback handle refers to.
C6_AtMostOnePlayback ==
  /\ Cardinality({p \in Audios : audios[p].state = "playing"}) <= 1
  /\ \A p \in Audios : audios[p].state = "playing" => playingAudioRef = p

\* C7: a connect attempt whose getUserMedia was rejected never has a
\* WebSocket or a stream; while every attempt was rejected the controller is
\* not connected, nothing records and nothing was sent; the rejection sets
\* the connection status to the failure text; and a WebSocket exists only
\* for an attempt that acquired the capture device.
C7_PermissionDeniedOpensNothing ==
  /\ [](\A a \in Attempts :
          /\ attempts[a].gum = "denied" =>
               attempts[a].ws = "none" /\ attempts[a].track = "none"
          /\ attempts[a].ws # "none" => attempts[a].gum = "granted")
  /\ []((\A a \in Attempts : attempts[a].gum = "denied") =>
          ~isConnected /\ ~isRecording /\ recorders = <<>> /\ wire = <<>>)
  /\ [][\A a \in Attempts :
          (attempts[a].gum = "pending" /\ attempts'[a].gum = "denied") =>
             /\ connectionStatus' =
                  "Failed to connect - check microphone permissions"
             /\ isConnected' = isConnected
             /\ wsRef' = wsRef]_vars

C7_Witness ==
  /\ \E a \in Attempts : attempts[a].gum = "denied"
  /\ connectionStatus = "Failed to connect - check microphone permissions"

\* C8: every transport-open sends its start frame at most once (no two start
\* frames carry the same stream id), and on every socket an audio frame is
\* sent only after a start frame.
C8_StartOnceBeforeAudio ==
  /\ \A i, j \in 1..Len(wire) :
       (i # j /\ wire[i].type = "start" /\ wire[j].type = "start")
          => wire[i].sid # wire[j].sid
  /\ \A a \in Attempts :
       LET fs == Frames(a)
       IN \A i \in 1..Len(fs) : fs[i].type = "audio" =>
            \E j \in 1..(i - 1) : fs[j].type = "start"

\* The place of recorder r in the order of finalization
FinalizedAt(r) == CHOOSE k \in 1..Len(finalized) : finalized[k] = r

\* C9: audio frames are on the wire in the order in which their captures
\* were finalized, with strictly increasing message_id.
C9_SentInFinalizationOrder ==
  \A i, j \in AudioFrames :
    i < j => /\ FinalizedAt(wire[i].rec) < FinalizedAt(wire[j].rec)
             /\ wire[i].mid < wire[j].mid

FramesOf(r) == {i \in AudioFrames : wire[i].rec = r}

TransportOpen == wsRef # 0 /\ attempts[wsRef].ws = "OPEN"

\* The controller still holds the transport that was created together with
\* the stream of capture r, and it is open (so it has been since r started)
TransportOpenFor(r) == wsRef = recorders[r].stream /\ attempts[wsRef].ws = "OPEN"

\* C11: when the auto-stop timer of a capture fires while that capture is
\* recording and the transport is open, the capture stops as it does on
\* stopRecording() (recorder inactive, its stop event queued, recording mark
\* and timer handle cleared); and a capture stopped by the timer whose audio
\* was converted while the transport stayed open is on the wire as exactly
\* one audio frame, whether or not a time slice had been emitted before.
C11_AutoStopIsStop ==
  /\ [][\A r \in Recorders :
          (autoStopTimer(r) /\ recorders[r].state = "recording" /\ TransportOpen)
            => /\ recorders'[r].state = "inactive"
               /\ recorders'[r].pc = "stopEvt"
               /\ ~isRecording'
               /\ recordingTimeoutRef' = 0]_vars
  /\ [](\A r \in Recorders :
          (recorders[r].stop = "timer" /\ recorders[r].pc = "done"
             /\ recorders[r].chunks > 0 /\ TransportOpenFor(r))
            => Cardinality(FramesOf(r)) = 1)

\* C12: a capture stopped while the transport was open (by the timer or the
\* button with the transport still open afterwards, or by disconnect()) and
\* whose stop event has been handled with audio to send has that audio on
\* the wire as an audio frame: it was flushed before the transport was
\* released, not discarded.
C12_StoppedCaptureIsFlushed ==
  \A r \in Recorders :
    (/\ recorders[r].pc = "done"
     /\ recorders[r].chunks > 0
     /\ \/ recorders[r].stop = "disconnect"
        \/ recorders[r].stop \in {"timer", "button"} /\ TransportOpenFor(r))
      => FramesOf(r) # {}

\* C13: an inbound audio message that arrives while the controller is
\* processing and whose playback starts clears the processing mark, sets the
\* playing mark and makes the new element the playback handle; when a
\* response element ends, the playing mark and the handle are cleared and
\* the connected and processing marks are left as they are; and the
\* processing mark is only ever set by the sending of a capture, so that
\* after the playback the controller is idle unless it has sent again.
C13_AudioReplyPlaysThenIdle ==
  /\ [][\A a \in Attempts :
          (isProcessing /\ onmessage(a, "audio", "ok"))
            => /\ ~isProcessing'
               /\ isPlaying'
               /\ playingAudioRef' = Len(audios) + 1
               /\ audios'[playingAudioRef'] =
                    [state |-> "playing", kind |-> "response"]]_vars
  /\ [][\A p \in Audios :
          (audios[p].kind = "response" /\ audioOnended(p))
            => /\ ~isPlaying'
               /\ playingAudioRef' = 0
               /\ isConnected' = isConnected
               /\ isProcessing' = isProcessing]_vars
  /\ [][(~isProcessing /\ isProcessing')
          => \E r \in Recorders :
               recorders[r].pc = "converting" /\ recorders'[r].pc = "done"]_vars

C13_Witness ==
  /\ AudioFrames # {}
  /\ lastMessage = "ok"
  /\ \E p \in Audios : audios[p] = [state |-> "ended", kind |-> "response"]
  /\ isConnected /\ ~isProcessing /\ ~isPlaying /\ playingAudioRef = 0

\* C14: an inbound message whose type is not "audio" changes nothing: the
\* connected, recording, processing and playing marks, the connection status,
\* the stream id and the message-id counter, the recorders, the transports,
\* the audio elements and the playback handle are as before, nothing is put
\* on the wire and nothing throws.
C14_UnknownTypeIgnored ==
  [][\A a \in Attempts :
       onmessage(a, "other", "ok")
         => UNCHANGED <<isConnected, isRecording, isProcessing, isPlaying,
                        connectionStatus, currentStreamId, messageIdCounter,
                        recorders, attempts, audios, playingAudioRef,
                        wire, threw>>]_vars

C14_Witness ==
  /\ lastMessage = "other"
  /\ isConnected /\ isProcessing /\ AudioFrames # {}

\* C15: an inbound message that is not valid JSON is dropped: the handler
\* does not throw and the connected, recording, processing and playing
\* marks, the stream id and the message-id counter are after the message
\* what they were before it.
C15_MalformedMessageDropped ==
  [][\A a \in Attempts :
       onmessage(a, "invalid", "ok")
         => /\ UNCHANGED <<isConnected, isRecording, isProcessing, isPlaying,
                           currentStreamId, messageIdCounter>>
            /\ threw' = threw]_vars

\* C16: when the peer closes the transport, the controller is disconnected
\* with everything released: no recorder is recording, no audio element is
\* playing and the microphone track of the session is stopped.
C16_PeerCloseReleasesAll ==
  [][\A a \in Attempts :
       oncloseByPeer(a)
         => /\ ~isConnected'
            /\ connectionStatus' = "Disconnected"
            /\ \A r \in Recorders : recorders'[r].state # "recording"
            /\ \A p \in Audios : audios'[p].state # "playing"
            /\ attempts'[a].track # "live"]_vars

\* C17: the error event of a transport sets the connection status to the
\* error text and touches no recorder, audio element, track or handle; and a
\* disconnect() issued while the status is the error text releases every
\* resource and does not throw.
C17_ErrorThenDisconnect ==
  /\ [][\A a \in Attempts :
          onerror(a)
            => /\ connectionStatus' = "Connection Error"
               /\ UNCHANGED <<recorders, audios, refs>>
               /\ \A b \in Attempts : attempts'[b].track = attempts[b].track]_vars
  /\ [][(connectionStatus = "Connection Error" /\ disconnect)
          => Released' /\ threw' = threw]_vars

\* The start frame built by the onopen of attempt a is on the wire
StartSent(a) == \E i \in 1..Len(wire) : wire[i].type = "start" /\ wire[i].sid = a

\* C18 as claimed: session establishment does not wait for the knowledge-base
\* association: while the association call of an opened transport has not
\* completed, the start frame is already on the wire and the capture
\* auto-start is scheduled.
C18_StartNotHeldByAssociation ==
  \A a \in Attempts :
    attempts[a].onopen = "assoc"
      => StartSent(a) /\ attempts[a].autoStart = "pending"

\* C18 amended: the start frame is held back while the association call is
\* pending; when the call has settled, successfully or not, and the
\* controller still holds this transport and it is open, the start frame is
\* sent on it and the capture auto-start is scheduled.
C18_StartAfterAssociation ==
  /\ [](\A a \in Attempts : attempts[a].onopen = "assoc" => ~StartSent(a))
  /\ [][\A a \in Attempts :
          (associateDone(a) /\ wsRef = a /\ attempts[a].ws = "OPEN")
            => /\ wire' = Append(wire, [ws |-> a, type |-> "start", sid |-> a,
                                        mid |-> 1, rec |-> 0, payload |-> "none"])
               /\ attempts'[a].autoStart = "pending"]_vars

C18_Witness ==
  \E a \in Attempts :
    /\ attempts[a].sKb /\ attempts[a].onopen = "done"
    /\ StartSent(a) /\ attempts[a].autoStart = "pending"

\* Something of the program is still outstanding: a getUserMedia or
\* association call, a socket opening or closing, a timer, a running
\* capture, a queued recorder event, a conversion or an audio element that
\* can still end or fail
EventPending ==
  \/ \E a \in Attempts :
        \/ attempts[a].gum = "pending"
        \/ attempts[a].ws \in {"CONNECTING", "CLOSING"}
        \/ attempts[a].onopen = "assoc"
        \/ attempts[a].autoStart = "pending"
  \/ \E r \in Recorders :
        \/ recorders[r].timer = "pending"
        \/ recorders[r].state = "recording"
        \/ recorders[r].pc \in {"stopEvt", "converting"}
  \/ \E p \in Audios : audios[p].state \in {"playing", "blocked"}

\* C19: the controller does not stay processing for ever when the peer never
\* answers: once every timer and event of the program has run, so that only
\* a message of the peer or an action of the user can still happen, the
\* processing mark is clear.
C19_ProcessingEnds ==
  isProcessing => EventPending

\* C20: when the payload of an inbound audio message cannot be decoded
\* (atob throws) or played (play() rejects), or a response element reports
\* an error, the controller is afterwards neither playing nor processing by
\* its marks, the connection is what it was and nothing has thrown out of
\* the handler.
C20_PlaybackFailureNotFatal ==
  /\ [][\A a \in Attempts : \A out \in {"atob", "reject"} :
          onmessage(a, "audio", out)
            => /\ ~isPlaying' /\ ~isProcessing'
               /\ UNCHANGED <<isConnected, connectionStatus, attempts, threw>>]_vars
  /\ [][\A p \in Audios :
          (audios[p].kind = "response" /\ audioOnerror(p))
            => /\ ~isPlaying' /\ ~isProcessing'
               /\ UNCHANGED <<isConnected, connectionStatus, attempts, threw>>]_vars

C20_Witness ==
  /\ lastMessage \in {"atob", "reject"}
  /\ AudioFrames # {}
  /\ isConnected /\ ~isPlaying /\ ~isProcessing /\ ~threw

C26_DisconnectCancelsTimers ==
  /\ [](afterDisconnect =>
          /\ \A a \in Attempts : attempts[a].autoStart # "pending"
          /\ \A r \in Recorders : recorders[r].timer # "pending")
  /\ [][\A a \in Attempts :
          (attempts[a].track = "ended" /\ autoStartTimer(a))
            => UNCHANGED <<recorders, mediaRecorderRef, isRecording,
                           recordingTimeoutRef>>]_vars

\* disconnect() has been called, connect() not since, and it left no
\* transport opening or open behind
Destroyed ==
  /\ afterDisconnect
  /\ \A a \in Attempts : /\ attempts[a].gum # "pending"
                          /\ attempts[a].ws \notin {"CONNECTING", "OPEN"}

\* C27: after a disconnect() that left no transport opening, and until the
\* next connect(), the stream id and the call id are empty and the
\* message-id counter is 1, whichever continuation of the old session
\* completes meanwhile, and no frame is put on the wire.
C27_SessionStaysDestroyed ==
  /\ [](Destroyed =>
          currentStreamId = 0 /\ currentCallId = 0 /\ messageIdCounter = 1)
  /\ [][(Destroyed /\ Destroyed') => wire' = wire]_vars

\* C28: every stored RecordedChunk has its audio frame on the wire: a frame
\* of the same capture with the chunk's messageId as message_id.
C28_ChunkHasItsFrame ==
  \A k \in 1..Len(recordedChunks) :
    \E i \in AudioFrames :
      /\ wire[i].rec = recordedChunks[k].rec
      /\ wire[i].mid = recordedChunks[k].messageId

\* C29: the recording mark is set exactly when the recorder the controller
\* holds is recording.
C29_RecordingMarkAgrees ==
  isRecording <=>
    (mediaRecorderRef # 0 /\ recorders[mediaRecorderRef].state = "recording")

\* C30: while the connection status is Disconnected the controller is
\* neither marked processing nor marked playing.
C30_DisconnectedIsIdle ==
  connectionStatus = "Disconnected" => ~isProcessing /\ ~isPlaying

\* The resampling of the conversion looked at has been done
Resampled == cpc \in {"resampled", "pcm"}

\* C22: with equal source and target rates resampleAudio returns its input:
\* the same length and the same samples.
C22_EqualRatesIdentity ==
  (Resampled /\ inputSampleRate = outputSampleRate)
     => resampledData = inputData

C22_Witness ==
  /\ cpc = "resampled"
  /\ inputSampleRate = outputSampleRate
  /\ Len(inputData) >= 3
  /\ resampledData = inputData

\* C23: with different rates the output has L = round(n * target / source)
\* samples (L - 1/2 <= n * target / source < L + 1/2), and for every output
\* index i the lower input index is floor(i * source / target) and lies in
\* 0..n-1, and the upper one is the next index or the last one and lies in
\* 0..n-1.
C23_LengthAndIndices ==
  (Resampled /\ inputSampleRate # outputSampleRate)
     => LET n == Len(inputData)
            L == Len(resampledData)
        IN /\ 2 * L * inputSampleRate <= 2 * n * outputSampleRate + inputSampleRate
           /\ 2 * n * outputSampleRate + inputSampleRate < 2 * (L + 1) * inputSampleRate
           /\ \A i \in 0..(L - 1) :
                LET lo == inputIndexFloor(i, inputSampleRate, outputSampleRate)
                    hi == inputIndexCeil(i, n, inputSampleRate, outputSampleRate)
                IN /\ lo * outputSampleRate <= i * inputSampleRate
                   /\ i * inputSampleRate < (lo + 1) * outputSampleRate
                   /\ lo \in 0..(n - 1)
                   /\ hi \in 0..(n - 1)
                   /\ hi = lo + 1 \/ hi = n - 1

C23_Witness ==
  /\ cpc = "resampled"
  /\ inputSampleRate # outputSampleRate
  /\ Len(inputData) >= 2
  /\ Len(resampledData) >= 2
  /\ \E i \in 0..(Len(resampledData) - 1) :
       /\ inputIndexFloor(i, inputSampleRate, outputSampleRate) = Len(inputData) - 1
       /\ inputIndexCeil(i, Len(inputData), inputSampleRate, outputSampleRate)
            = Len(inputData) - 1

\* C24: every encoded value lies in -32767..32767; a sample above 1 encodes
\* as 32767 and one below -1 as -32767 (no wrap-around); and for a sample s
\* in [-1, 1] the encoded value v is the integer nearest to s * 32767, so
\* that v / 32767 is within one quantization step of s.
C24_PCM16ClampsAndRounds ==
  cpc = "pcm" =>
    /\ Len(pcmData) = Len(resampledData)
    /\ \A k \in 1..Len(pcmData) :
         LET s == resampledData[k]
             v == pcmData[k]
         IN /\ v \in (-PCM16Max)..PCM16Max
            /\ s.d # 0 =>
                 /\ s.n > s.d => v = PCM16Max
                 /\ s.n < -s.d => v = -PCM16Max
                 /\ (s.n <= s.d /\ s.n >= -s.d) =>
                      /\ 2 * Abs(PCM16Max * s.n - v * s.d) <= s.d
                      /\ Abs(PCM16Max * s.n - v * s.d) <= s.d

C24_Witness ==
  /\ cpc = "pcm"
  /\ \E k \in 1..Len(pcmData) :
       resampledData[k].n > resampledData[k].d /\ pcmData[k] = PCM16Max
  /\ \E k \in 1..Len(pcmData) :
       /\ resampledData[k].d > 1
       /\ Abs(resampledData[k].n) < resampledData[k].d
       /\ pcmData[k] # 0

Next ==
  \/ \E kb \in budget.kb : connect(kb)
  \/ \E a \in 1..Len(attempts) : getUserMediaResolved(a)
  \/ \E a \in 1..Len(attempts) : getUserMediaRejected(a)
  \/ \E a \in 1..Len(attempts) : onopen(a)
  \/ \E a \in 1..Len(attempts) : associateDone(a)
  \/ \E a \in 1..Len(attempts) : oncloseAfterClosing(a)
  \/ \E a \in 1..Len(attempts) : oncloseByPeer(a)
  \/ \E a \in 1..Len(attempts) : onerror(a)
  \/ \E a \in 1..Len(attempts) : autoStartTimer(a)
  \/ recordButton
  \/ \E r \in 1..Len(recorders) : autoStopTimer(r)
  \/ \E r \in 1..Len(recorders) : ondataavailable(r)
  \/ \E r \in 1..Len(recorders) : tracksEnded(r)
  \/ \E r \in 1..Len(recorders), last \in BOOLEAN : onstop(r, last)
  \/ \E r \in 1..Len(recorders), res \in {"pcm", "fallback", "null"} :
        convertAudioForTeler(r, res)
  \/ disconnect
  \/ \E a \in 1..Len(attempts), kind \in {"audio", "empty", "other", "invalid"},
        out \in {"ok", "atob", "reject"} : onmessage(a, kind, out)
  \/ \E p \in 1..Len(audios) : audioOnended(p)
  \/ \E p \in 1..Len(audios) : audioOnerror(p)
  \/ \E i \in 1..Len(recordedChunks), out \in {"ok", "reject"} : chunkButton(i, out)
  \/ clearAllChunks

Spec == Init /\ [][Next]_vars
====
